---- MODULE Spec2Model ----
(***************************************************************************)
(* Alpha-Arena-Lite (A-share back-test engine): the portfolio execution    *)
(* and guardrail engine.  The guardrails are translated from the Python    *)
(* fragments in specs/review/round3/review.md (trade_decision_provider,    *)
(* compute_strategy_flags, the back-test main loop), the trading rules     *)
(* from the variable notes and the live-trading rules of the repository.   *)
(*                                                                         *)
(* Money is an integer number of 1/100000 yuan, so that the three fee      *)
(* rates (0.0003, 0.0005, 0.00001) are exact.  Prices are whole yuan.      *)
(***************************************************************************)
EXTENDS Integers, Sequences, FiniteSets, TLC

VARIABLES
    pc,                 \* position of the run: "fetch", "decide", "written", "done", "live"
    day,                \* index of the trading day being processed (dstr)
    cash,               \* portfolio.available_cash, in 1/100000 yuan
    position,           \* shares held (long only)
    avg_entry_price,    \* <<numerator, denominator>> in yuan, <<0, 1>> when flat
    last_buy_date,      \* day of the most recent executed buy, 0 when none
    buy_cooldown_until, \* day the re-entry lockout ends, 0 when None
    md,                 \* md_one: the day's market snapshot plus buy_cooldown
    flags,              \* the day's quant flags
    prop,               \* the decision source's answer of the day
    out,                \* the day's final order and its execution result
    ledger,             \* the rows of trades_<symbol>.csv, in file order
    failed_days,        \* days reported as an error and skipped (no snapshot)
    rows_today,         \* live booking: manual_exec rows booked on this day
    manual_row,         \* live booking: the manual_exec row booked last
    day_start,          \* history: portfolio and cooldown when the day began
    tape,               \* replay: the recorded inputs of the days, read by both runs
    runs,               \* replay: the state of each of the two runs
    account,            \* live: available_cash of Live/account_state.json
    books,              \* live: per symbol, its position, cooldown and record
    alone,              \* live: per symbol, the same days run with no other symbol
    api,                \* web: the credit balance and the requests of /api/strategy/generate
    chat,               \* web: the backtest page's chat state and the wizard's hook state
    feed,               \* web: the rows read for a chart request and the series answered
    ctrl,               \* web: the response stream of one /api/strategy/generate request
    job,                \* web: the child, the file and the stream of one /api/backtest/run request
    ndjson,             \* web: the reader loop of useAIStrategy over one chunked response
    hook                \* web: the requests, loading flag and controller ref of useAIStrategy

runVars == <<pc, day, cash, position, avg_entry_price, last_buy_date,
             buy_cooldown_until, md, flags, prop, out, ledger, failed_days,
             rows_today, manual_row, day_start>>

liveVars == <<rows_today, manual_row>>

\* The variables of the other specifications of this module.
twinVars == <<tape, runs>>

accountVars == <<account, books, alone>>

webVars == <<api>>

chatVars == <<chat>>

restVars == <<feed, ctrl, job, ndjson, hook>>

otherVars == <<twinVars, accountVars, webVars, chatVars, restVars>>

baseVars == <<runVars, twinVars, accountVars, webVars, chatVars>>

vars == <<runVars, otherVars>>

----------------------------------------------------------------------------
(* Bounds of the model *)

NDays == 4
InitialCash == 5500
LockoutDays == 2
LiveDays == 2
MaxRowsPerDay == 2

(* Program constants *)

LOT_SIZE == 100
COMMISSION_RATE == 30
STAMP_DUTY_RATE == 50
TRANSFER_FEE_RATE == 1
RATE_UNIT == 100000
OVERSOLD_RSI == 40
BAND_NUM == 1015
BAND_DEN == 1000
EXTREME_RSI == 90
PYRAMID_PCT == 5
PYRAMID_HALF == 2

NoneVal == 0 - 1
BadVal == 0 - 2

IsNum(x) == x >= 0

Min(a, b) == IF a <= b THEN a ELSE b
Max(a, b) == IF a >= b THEN a ELSE b

RECURSIVE Gcd(_, _)
Gcd(a, b) == IF b = 0 THEN a ELSE Gcd(b, a % b)

----------------------------------------------------------------------------
(* Inputs of a day *)

Prices == {10, 11}

\* (price, ema20, rsi6) rows of the factor API; NoneVal is a missing field,
\* BadVal a field that is present but not a number.
Snapshots ==
    { [price |-> 11, ema20 |-> 10, rsi6 |-> 85],
      [price |-> 11, ema20 |-> 10, rsi6 |-> 95],
      [price |-> 10, ema20 |-> 10, rsi6 |-> 50],
      [price |-> 10, ema20 |-> 11, rsi6 |-> 30],
      [price |-> 11, ema20 |-> 11, rsi6 |-> BadVal],
      [price |-> 11, ema20 |-> NoneVal, rsi6 |-> NoneVal] }

FlagNames == {"is_super_trend", "is_momentum_buy", "is_mean_reversion_buy",
              "is_exploratory_buy", "is_trend_buy_strict"}

\* The flags other than is_cooldown_release_met are computed by code that is
\* not in the repository's fragments; they are inputs here: none set, or one
\* of them.
FlagSets == {{}} \cup {{f} : f \in FlagNames}

Signals == {"buy", "sell", "close", "hold"}

NoMd == [price |-> NoneVal, ema20 |-> NoneVal, rsi6 |-> NoneVal,
         buy_cooldown |-> FALSE]
NoFlags == [set |-> {}, is_cooldown_release_met |-> FALSE]
NoProp == [signal |-> "none", qty_lots |-> 0, raises |-> "none"]
NoOut == [signal |-> "none", quantity |-> 0, success |-> FALSE]
NoRow == [signal |-> "none", quantity_shares |-> 0, effective_price |-> 0,
          success |-> FALSE]

----------------------------------------------------------------------------
(* Quant Flag Calculator: compute_strategy_flags, section 7 *)

\* rsi6 < 40.0, or ema20 <= price <= 1.015 * ema20.  A field that is not a
\* number raises inside the try; the except clause keeps what was set so far.
is_cooldown_release_met(m) ==
    IF m.rsi6 = BadVal THEN FALSE
    ELSE LET oversold == IsNum(m.rsi6) /\ m.rsi6 < OVERSOLD_RSI
         IN  IF m.price = NoneVal \/ m.ema20 = NoneVal THEN oversold
             ELSE IF m.price = BadVal \/ m.ema20 = BadVal THEN oversold
             ELSE oversold \/ ( m.price >= m.ema20
                                /\ m.price * BAND_DEN <= m.ema20 * BAND_NUM )

compute_strategy_flags(m, set) ==
    [set |-> set, is_cooldown_release_met |-> is_cooldown_release_met(m)]

(* backtest.py main loop: the dynamic cooldown reset *)

\* The loop's own test.  None and 0 are falsy in `curr_p and curr_ema`; a
\* field that is not a number raises and the except clause resets nothing.
reset_cooldown(m) ==
    IF m.rsi6 = BadVal THEN FALSE
    ELSE IF IsNum(m.rsi6) /\ m.rsi6 < OVERSOLD_RSI THEN TRUE
    ELSE IF m.price = NoneVal \/ m.price = 0 THEN FALSE
    ELSE IF m.ema20 = NoneVal \/ m.ema20 = 0 THEN FALSE
    ELSE IF m.price = BadVal \/ m.ema20 = BadVal THEN FALSE
    ELSE m.price >= m.ema20 /\ m.price * BAND_DEN <= m.ema20 * BAND_NUM

\* buy_cooldown_until and dstr < buy_cooldown_until
InLockout(until, d) == until # 0 /\ d < until

\* Mutant: the lockout is cleared on every locked day, met or not.
CooldownAlwaysReset(until, d, m) ==
    IF InLockout(until, d) THEN 0 ELSE until

\* The value of buy_cooldown_until after the reset block of day d.
CooldownAfterReset(until, d, m) ==
    IF InLockout(until, d) /\ reset_cooldown(m) THEN 0 ELSE until

----------------------------------------------------------------------------
(* simple_portfolio.py: fees, lots, T+1 *)

\* Cost of buying q shares: commission on both sides, transfer fee (SH).
BuyCost(q, price) ==
    q * price * (RATE_UNIT + COMMISSION_RATE + TRANSFER_FEE_RATE)

\* Mutant: the proceeds of a sale enter with the wrong sign.
SellProceedsNegated(q, price) ==
    0 - q * price * (RATE_UNIT - COMMISSION_RATE - STAMP_DUTY_RATE - TRANSFER_FEE_RATE)

\* Proceeds of selling q shares: commission, stamp duty, transfer fee (SH).
SellProceeds(q, price) ==
    q * price * (RATE_UNIT - COMMISSION_RATE - STAMP_DUTY_RATE - TRANSFER_FEE_RATE)

\* The largest number of lots the cash can pay for, fees included.
max_buyable_lots(c, price) == c \div BuyCost(LOT_SIZE, price)

\* T+1: shares bought on day T can be sold from the next trading day on.
can_sell_after(lbd) == IF lbd = 0 THEN 0 ELSE lbd + 1

\* Mutant: the settlement date is taken to be the buy date itself.
SellableSameDay(lbd, d) == ~ (d < lbd)

Sellable(lbd, d) == ~ (d < can_sell_after(lbd))

\* Weighted average cost of the position after buying q shares at price.
AvgAfterBuy(avg, pos, q, price) ==
    LET n == pos * avg[1] + q * price * avg[2]
        d == avg[2] * (pos + q)
        g == Gcd(n, d)
    IN  <<n \div g, d \div g>>

\* A portfolio is [cash, position, avg_entry_price, last_buy_date].
Portfolio(c, p, a, l) ==
    [cash |-> c, position |-> p, avg_entry_price |-> a, last_buy_date |-> l]

\* portfolio.buy: q a positive multiple of the lot that the cash can pay.
BuyOK(pf, q, price) ==
    /\ q > 0
    /\ q % LOT_SIZE = 0
    /\ BuyCost(q, price) <= pf.cash

\* portfolio.sell / close: q shares held and past the T+1 date.
SellOK(pf, q, d) ==
    /\ q > 0
    /\ q <= pf.position
    /\ Sellable(pf.last_buy_date, d)

\* Applies the order (signal, q shares) of day d at price; the result is the
\* new portfolio and the success flag.  A refused order changes nothing.
ApplyOrder(pf, signal, q, price, d) ==
    IF signal = "buy" THEN
        IF BuyOK(pf, q, price)
        THEN [pf |-> Portfolio(pf.cash - BuyCost(q, price),
                               pf.position + q,
                               AvgAfterBuy(pf.avg_entry_price, pf.position, q, price),
                               d),
              success |-> TRUE]
        ELSE [pf |-> pf, success |-> FALSE]
    ELSE IF signal \in {"sell", "close"} THEN
        IF SellOK(pf, q, d)
        THEN [pf |-> Portfolio(pf.cash + SellProceeds(q, price),
                               pf.position - q,
                               IF pf.position = q THEN <<0, 1>>
                                                   ELSE pf.avg_entry_price,
                               pf.last_buy_date),
              success |-> TRUE]
        ELSE [pf |-> pf, success |-> FALSE]
    ELSE [pf |-> pf, success |-> TRUE]

----------------------------------------------------------------------------
(* trade_decision_simple_AI.py: the hard rules of trade_decision_provider *)

Order(sig, lots) == [signal |-> sig, qty_lots |-> lots]

HoldOrder == Order("hold", 0)

\* Cooldown check of the buy branch.  md_local and the flags are read again
\* inside a try; when that raises ("md": reading md_local, "flags":
\* compute_strategy_flags) the except clause passes and sig stays as it was.
CooldownCheck(o, m, raises) ==
    IF raises # "none" THEN o
    ELSE LET in_cooldown == m.buy_cooldown
             release_met == compute_strategy_flags(m, {}).is_cooldown_release_met
         IN  IF in_cooldown /\ ~ release_met THEN HoldOrder ELSE o

\* Mutant: the condition set is never consulted.
BuyAlwaysAllowed(f) == TRUE

\* The condition set that allows a buy.
BuyAllowed(f) ==
    \/ "is_trend_buy_strict" \in f.set
    \/ "is_exploratory_buy" \in f.set
    \/ "is_mean_reversion_buy" \in f.set
    \/ "is_momentum_buy" \in f.set
    \/ "is_super_trend" \in f.set
    \/ f.is_cooldown_release_met

\* Strategy threshold check of the buy branch.
EligibilityGate(o, f) == IF ~ BuyAllowed(f) THEN HoldOrder ELSE o

\* profit_pct = (curr_price - avg_price) / avg_price > 0.05, avg_price = n / d.
ProfitAbove(avg, curr_price) ==
    /\ avg[1] > 0
    /\ curr_price > 0
    /\ (curr_price * avg[2] - avg[1]) * 100 > PYRAMID_PCT * avg[1]

\* Pyramiding of the buy branch: qty_lots = max(qty_lots, int(max * 0.5)).
\* md_local is unbound when reading it raised before; that is caught too.
Pyramiding(o, m, f, pf, raises) ==
    IF raises = "md" THEN o
    ELSE IF ProfitAbove(pf.avg_entry_price, m.price) /\ "is_momentum_buy" \in f.set
         THEN LET target_lots == max_buyable_lots(pf.cash, m.price) \div PYRAMID_HALF
              IN  Order(o.signal, Max(o.qty_lots, target_lots))
         ELSE o

\* Mutant: the exemption repeats the ordinary overbought bar (RSI > 80).
SellRuleOrdinaryBar(o, m, f) ==
    IF "is_super_trend" \in f.set
    THEN IF m.rsi6 = BadVal THEN o
         ELSE IF IsNum(m.rsi6) /\ m.rsi6 > EXTREME_RSI - 10 THEN o
         ELSE HoldOrder
    ELSE o

\* The sell / close branch: the super-trend exemption.  float(rsi6_val) of a
\* value that is not a number raises; the except clause passes.
SellRule(o, m, f) ==
    IF "is_super_trend" \in f.set
    THEN IF m.rsi6 = BadVal THEN o
         ELSE IF IsNum(m.rsi6) /\ m.rsi6 > EXTREME_RSI THEN o
         ELSE HoldOrder
    ELSE o

\* The hard rules, in the order of the code.
HardRules(o, m, f, pf, raises) ==
    IF o.signal = "buy"
    THEN Pyramiding(EligibilityGate(CooldownCheck(o, m, raises), f), m, f, pf, raises)
    ELSE IF o.signal \in {"sell", "close"} THEN SellRule(o, m, f)
    ELSE o

\* Mutant: a buy is cut to the shares the cash can pay, not to whole lots.
ClampToCashShares(o, pf, price) ==
    IF o.signal = "buy"
    THEN [signal |-> "buy",
          quantity |-> Min(o.qty_lots * LOT_SIZE, pf.cash \div BuyCost(1, price))]
    ELSE IF o.signal = "sell"
    THEN [signal |-> "sell", quantity |-> Min(o.qty_lots * LOT_SIZE, pf.position)]
    ELSE IF o.signal = "close"
    THEN [signal |-> "close", quantity |-> pf.position]
    ELSE [signal |-> o.signal, quantity |-> o.qty_lots * LOT_SIZE]

\* Mutant: lots become shares without looking at the cash.
ClampLotsOnly(o, pf, price) ==
    IF o.signal = "buy"
    THEN [signal |-> "buy", quantity |-> o.qty_lots * LOT_SIZE]
    ELSE IF o.signal = "sell"
    THEN [signal |-> "sell", quantity |-> Min(o.qty_lots * LOT_SIZE, pf.position)]
    ELSE IF o.signal = "close"
    THEN [signal |-> "close", quantity |-> pf.position]
    ELSE [signal |-> o.signal, quantity |-> o.qty_lots * LOT_SIZE]

\* Lots to shares: a buy is cut to the lots the cash can pay, a sell to the
\* shares held, a close is the whole position.
LotAndBudgetClamp(o, pf, price) ==
    IF o.signal = "buy"
    THEN [signal |-> "buy",
          quantity |-> Min(o.qty_lots, max_buyable_lots(pf.cash, price)) * LOT_SIZE]
    ELSE IF o.signal = "sell"
    THEN [signal |-> "sell", quantity |-> Min(o.qty_lots * LOT_SIZE, pf.position)]
    ELSE IF o.signal = "close"
    THEN [signal |-> "close", quantity |-> pf.position]
    ELSE [signal |-> o.signal, quantity |-> o.qty_lots * LOT_SIZE]

\* The final order of the day for the proposal pr.
trade_decision_provider(pr, m, f, pf) ==
    LotAndBudgetClamp(HardRules(Order(pr.signal, pr.qty_lots), m, f, pf, pr.raises),
                      pf, m.price)

----------------------------------------------------------------------------
(* backtest.py: the day loop *)

Pf == Portfolio(cash, position, avg_entry_price, last_buy_date)

\* A row of trades_<symbol>.csv.
Row(d, signal, quantity, success, c) ==
    [date |-> d, signal |-> signal, quantity |-> quantity,
     success |-> success, available_cash |-> c]

\* What the decision source can answer: an order in lots, or nothing at all
\* (timeout, malformed answer: signal "fail").  raises names what goes wrong
\* when the buy branch reads md_local and recomputes the flags.
Proposals ==
    { [signal |-> "buy", qty_lots |-> 1, raises |-> r] :
          r \in {"none", "md", "flags"} }
    \cup { [signal |-> "buy", qty_lots |-> 9, raises |-> "none"],
           [signal |-> "sell", qty_lots |-> 1, raises |-> "none"],
           [signal |-> "close", qty_lots |-> 0, raises |-> "none"],
           [signal |-> "hold", qty_lots |-> 0, raises |-> "none"],
           [signal |-> "fail", qty_lots |-> 0, raises |-> "none"] }

\* What a day starts from.
DayStart(c, p, a, l, until) ==
    [cash |-> c, position |-> p, avg_entry_price |-> a, last_buy_date |-> l,
     buy_cooldown_until |-> until]

\* The variables of the other specifications, at rest.
TwinIdle ==
    /\ tape = <<>>
    /\ runs = <<>>

AccountIdle ==
    /\ account = 0
    /\ books = <<>>
    /\ alone = <<>>

WebIdle ==
    /\ api = <<>>

ChatIdle ==
    /\ chat = <<>>

FeedIdle == feed = <<>>

CtrlIdle == ctrl = <<>>

JobIdle == job = <<>>

NdjsonIdle == ndjson = <<>>

HookIdle == hook = <<>>

RestIdle ==
    /\ FeedIdle
    /\ CtrlIdle
    /\ JobIdle
    /\ NdjsonIdle
    /\ HookIdle

OthersIdle ==
    /\ TwinIdle
    /\ AccountIdle
    /\ WebIdle
    /\ ChatIdle
    /\ RestIdle

Init ==
    /\ pc = "fetch"
    /\ day = 1
    /\ cash = InitialCash * RATE_UNIT
    /\ position = 0
    /\ avg_entry_price = <<0, 1>>
    /\ last_buy_date = 0
    /\ buy_cooldown_until = 0
    /\ md = NoMd
    /\ flags = NoFlags
    /\ prop = NoProp
    /\ out = NoOut
    /\ ledger = <<>>
    /\ failed_days = {}
    /\ rows_today = 0
    /\ manual_row = NoRow
    /\ day_start = DayStart(InitialCash * RATE_UNIT, 0, <<0, 1>>, 0, 0)
    /\ OthersIdle

\* The factor API fails for the day: the error is reported and the day is
\* skipped, without a row.
FetchFails ==
    /\ pc = "fetch"
    /\ failed_days' = failed_days \cup {day}
    /\ pc' = "written"
    /\ UNCHANGED <<day, cash, position, avg_entry_price, last_buy_date,
                   buy_cooldown_until, md, flags, prop, out, ledger, liveVars, day_start, otherVars>>

\* md_one is computed, then the dynamic cooldown reset runs, before the
\* decision source is called.
FetchDay(s, set) ==
    /\ pc = "fetch"
    /\ LET until == CooldownAfterReset(buy_cooldown_until, day, s)
       IN  /\ buy_cooldown_until' = until
           /\ md' = [price |-> s.price, ema20 |-> s.ema20, rsi6 |-> s.rsi6,
                     buy_cooldown |-> IF until # buy_cooldown_until THEN FALSE
                                      ELSE InLockout(buy_cooldown_until, day)]
    /\ flags' = compute_strategy_flags(s, set)
    /\ pc' = "decide"
    /\ UNCHANGED <<day, cash, position, avg_entry_price, last_buy_date,
                   prop, out, ledger, failed_days, liveVars, day_start, otherVars>>

\* The decision source does not answer: the day counts as a hold that was
\* not executed; the portfolio is not touched.
DecideFails ==
    /\ pc = "decide"
    /\ prop' = [signal |-> "fail", qty_lots |-> 0, raises |-> "none"]
    /\ out' = [signal |-> "hold", quantity |-> 0, success |-> FALSE]
    /\ ledger' = Append(ledger, Row(day, "hold", 0, FALSE, cash))
    /\ pc' = "written"
    /\ UNCHANGED <<day, cash, position, avg_entry_price, last_buy_date,
                   buy_cooldown_until, md, flags, failed_days, liveVars, day_start, otherVars>>

\* Mutant: a sell or close starts the lockout whether it was executed or not.
CooldownAfterAnySell(until, signal, success, d) ==
    IF signal \in {"sell", "close"} THEN d + LockoutDays ELSE until

\* The cooldown after the day's order: an executed sell or close starts it.
CooldownAfterOrder(until, signal, success, d) ==
    IF signal \in {"sell", "close"} /\ success THEN d + LockoutDays ELSE until

\* Mutant: only trades are written; a day that ends in hold gets no row.
DecideSkipsHoldRow(pr) ==
    /\ pc = "decide"
    /\ pr.signal # "fail"
    /\ LET final == trade_decision_provider(pr, md, flags, Pf)
           res == ApplyOrder(Pf, final.signal, final.quantity, md.price, day)
       IN  /\ cash' = res.pf.cash
           /\ position' = res.pf.position
           /\ avg_entry_price' = res.pf.avg_entry_price
           /\ last_buy_date' = res.pf.last_buy_date
           /\ buy_cooldown_until' =
                  CooldownAfterOrder(buy_cooldown_until, final.signal, res.success, day)
           /\ out' = [signal |-> final.signal, quantity |-> final.quantity,
                      success |-> res.success]
           /\ ledger' = IF final.signal = "hold" THEN ledger
                         ELSE Append(ledger, Row(day, final.signal, final.quantity,
                                                 res.success, res.pf.cash))
    /\ prop' = pr
    /\ pc' = "written"
    /\ UNCHANGED <<day, md, flags, failed_days, liveVars, day_start, otherVars>>

\* The decision source answers pr; the hard rules give the final order, the
\* portfolio executes it and the day's row is written.
Decide(pr) ==
    /\ pc = "decide"
    /\ pr.signal # "fail"
    /\ LET final == trade_decision_provider(pr, md, flags, Pf)
           res == ApplyOrder(Pf, final.signal, final.quantity, md.price, day)
       IN  /\ cash' = res.pf.cash
           /\ position' = res.pf.position
           /\ avg_entry_price' = res.pf.avg_entry_price
           /\ last_buy_date' = res.pf.last_buy_date
           /\ buy_cooldown_until' =
                  CooldownAfterOrder(buy_cooldown_until, final.signal, res.success, day)
           /\ out' = [signal |-> final.signal, quantity |-> final.quantity,
                      success |-> res.success]
           /\ ledger' = Append(ledger, Row(day, final.signal, final.quantity,
                                           res.success, res.pf.cash))
    /\ prop' = pr
    /\ pc' = "written"
    /\ UNCHANGED <<day, md, flags, failed_days, liveVars, day_start, otherVars>>

\* Mutant: the loop ends at the first day whose data could not be fetched.
NextDayStopsAtFailure ==
    /\ pc = "written"
    /\ day' = day + 1
    /\ pc' = IF day >= NDays \/ day \in failed_days THEN "done" ELSE "fetch"
    /\ md' = NoMd
    /\ flags' = NoFlags
    /\ prop' = NoProp
    /\ out' = NoOut
    /\ day_start' = DayStart(cash, position, avg_entry_price, last_buy_date,
                             buy_cooldown_until)
    /\ UNCHANGED <<cash, position, avg_entry_price, last_buy_date,
                   buy_cooldown_until, ledger, failed_days, liveVars, otherVars>>

\* The loop goes on to the next trading day, or ends after the last one.
NextDay ==
    /\ pc = "written"
    /\ day' = day + 1
    /\ pc' = IF day >= NDays THEN "done" ELSE "fetch"
    /\ md' = NoMd
    /\ flags' = NoFlags
    /\ prop' = NoProp
    /\ out' = NoOut
    /\ day_start' = DayStart(cash, position, avg_entry_price, last_buy_date,
                             buy_cooldown_until)
    /\ UNCHANGED <<cash, position, avg_entry_price, last_buy_date,
                   buy_cooldown_until, ledger, failed_days, liveVars, otherVars>>

Next ==
    \/ FetchFails
    \/ \E s \in Snapshots, set \in FlagSets : FetchDay(s, set)
    \/ DecideFails
    \/ \E pr \in Proposals : Decide(pr)
    \/ NextDay

Spec == Init /\ [][Next]_vars

----------------------------------------------------------------------------
(* livetrade.py: booking the manual executions of a day (--manual-exec-file) *)

\* Rows of Live/manual_exec/<date>.csv for the symbol: several rows may carry
\* the same date_T; success is what the trader reports.
ManualRows ==
    { [signal |-> sg, quantity_shares |-> q, effective_price |-> p, success |-> ok] :
          sg \in {"buy", "sell", "close"}, q \in {LOT_SIZE}, p \in Prices,
          ok \in BOOLEAN }
    \cup { [signal |-> "hold", quantity_shares |-> 0, effective_price |-> 10,
            success |-> FALSE] }

InitLive ==
    /\ pc = "live"
    /\ day = 1
    /\ cash = InitialCash * RATE_UNIT
    /\ position = 0
    /\ avg_entry_price = <<0, 1>>
    /\ last_buy_date = 0
    /\ buy_cooldown_until = 0
    /\ md = NoMd
    /\ flags = NoFlags
    /\ prop = NoProp
    /\ out = NoOut
    /\ ledger = <<>>
    /\ failed_days = {}
    /\ rows_today = 0
    /\ manual_row = NoRow
    /\ day_start = DayStart(InitialCash * RATE_UNIT, 0, <<0, 1>>, 0, 0)
    /\ OthersIdle

\* One row is booked.  A row the trader reports as not filled is recorded and
\* not booked; a sell or close with date_T < can_sell_after is marked failed
\* and not booked; any other row goes through the portfolio.  out is the row
\* written to trade_record_<symbol>.csv.
BookManualRow(r) ==
    /\ pc = "live"
    /\ rows_today < MaxRowsPerDay
    /\ LET q == IF r.signal = "close" THEN position ELSE r.quantity_shares
           res == IF r.success
                  THEN ApplyOrder(Pf, r.signal, q, r.effective_price, day)
                  ELSE [pf |-> Pf, success |-> FALSE]
       IN  /\ cash' = res.pf.cash
           /\ position' = res.pf.position
           /\ avg_entry_price' = res.pf.avg_entry_price
           /\ last_buy_date' = res.pf.last_buy_date
           /\ out' = [signal |-> r.signal, quantity |-> q, success |-> res.success]
    /\ manual_row' = r
    /\ rows_today' = rows_today + 1
    /\ UNCHANGED <<pc, day, buy_cooldown_until, md, flags, prop, ledger,
                   failed_days, day_start, otherVars>>

\* The next trading day's file is booked.
NextLiveDay ==
    /\ pc = "live"
    /\ day < LiveDays
    /\ day' = day + 1
    /\ rows_today' = 0
    /\ manual_row' = NoRow
    /\ out' = NoOut
    /\ UNCHANGED <<pc, cash, position, avg_entry_price, last_buy_date,
                   buy_cooldown_until, md, flags, prop, ledger, failed_days,
                   day_start, otherVars>>

NextLive ==
    \/ \E r \in ManualRows : BookManualRow(r)
    \/ NextLiveDay

SpecLive == InitLive /\ [][NextLive]_vars

----------------------------------------------------------------------------
(* backtest.py run twice over the same recorded inputs *)

\* Bound of the replayed run, and the inputs a recorded day can hold.
TwinDays == 3

TwinSnapshots ==
    { [price |-> 10, ema20 |-> 10, rsi6 |-> 50],
      [price |-> 11, ema20 |-> 10, rsi6 |-> 85] }

TwinFlagSets == { {}, {"is_momentum_buy"} }

TwinProposals ==
    { [signal |-> "buy", qty_lots |-> 1, raises |-> "none"],
      [signal |-> "sell", qty_lots |-> 1, raises |-> "none"],
      [signal |-> "fail", qty_lots |-> 0, raises |-> "none"] }

\* What was recorded for a day: no data (the factor API failed), or the
\* snapshot, the other flags and the answer of the decision source.
DayInputs ==
    { [kind |-> "nodata", s |-> NoMd, set |-> {}, pr |-> NoProp] }
    \cup { [kind |-> "day", s |-> s, set |-> set, pr |-> pr] :
               s \in TwinSnapshots, set \in TwinFlagSets, pr \in TwinProposals }

Runs == {1, 2}

\* Mutant: the second run inherits a lockout that the first one left behind.
StartOfRunCarried(r) ==
    [day |-> 1, cash |-> InitialCash * RATE_UNIT, position |-> 0,
     avg_entry_price |-> <<0, 1>>, last_buy_date |-> 0,
     buy_cooldown_until |-> IF r = 1 THEN 0 ELSE 1 + LockoutDays,
     ledger |-> <<>>]

\* A run starts from the configured cash, flat and unlocked.
StartOfRun(r) ==
    [day |-> 1, cash |-> InitialCash * RATE_UNIT, position |-> 0,
     avg_entry_price |-> <<0, 1>>, last_buy_date |-> 0,
     buy_cooldown_until |-> 0, ledger |-> <<>>]

\* One pass of the day loop for the run state st and the recorded inputs inp:
\* fetch (or skip), early reset, decision, hard rules, execution, row.
ProcessDay(st, inp) ==
    IF inp.kind = "nodata" THEN [st EXCEPT !.day = st.day + 1]
    ELSE
    LET d == st.day
        until == CooldownAfterReset(st.buy_cooldown_until, d, inp.s)
        m == [price |-> inp.s.price, ema20 |-> inp.s.ema20, rsi6 |-> inp.s.rsi6,
              buy_cooldown |-> IF until # st.buy_cooldown_until THEN FALSE
                               ELSE InLockout(st.buy_cooldown_until, d)]
        f == compute_strategy_flags(inp.s, inp.set)
        pf == Portfolio(st.cash, st.position, st.avg_entry_price, st.last_buy_date)
    IN  IF inp.pr.signal = "fail"
        THEN [st EXCEPT !.day = d + 1,
                        !.buy_cooldown_until = until,
                        !.ledger = Append(@, Row(d, "hold", 0, FALSE, st.cash))]
        ELSE LET final == trade_decision_provider(inp.pr, m, f, pf)
                 res == ApplyOrder(pf, final.signal, final.quantity, m.price, d)
             IN  [day |-> d + 1,
                  cash |-> res.pf.cash,
                  position |-> res.pf.position,
                  avg_entry_price |-> res.pf.avg_entry_price,
                  last_buy_date |-> res.pf.last_buy_date,
                  buy_cooldown_until |->
                      CooldownAfterOrder(until, final.signal, res.success, d),
                  ledger |-> Append(st.ledger,
                                    Row(d, final.signal, final.quantity,
                                        res.success, res.pf.cash))]

RunsIdle ==
    /\ pc = "twin"
    /\ day = 0
    /\ cash = 0
    /\ position = 0
    /\ avg_entry_price = <<0, 1>>
    /\ last_buy_date = 0
    /\ buy_cooldown_until = 0
    /\ md = NoMd
    /\ flags = NoFlags
    /\ prop = NoProp
    /\ out = NoOut
    /\ ledger = <<>>
    /\ failed_days = {}
    /\ rows_today = 0
    /\ manual_row = NoRow
    /\ day_start = DayStart(0, 0, <<0, 1>>, 0, 0)

InitTwin ==
    /\ RunsIdle
    /\ AccountIdle
    /\ WebIdle
    /\ ChatIdle
    /\ RestIdle
    /\ tape \in [1..TwinDays -> DayInputs]
    /\ runs = [r \in Runs |-> StartOfRun(r)]

\* Run r processes its next day from the tape.
RunDay(r) ==
    /\ runs[r].day <= TwinDays
    /\ runs' = [runs EXCEPT ![r] = ProcessDay(runs[r], tape[runs[r].day])]
    /\ UNCHANGED <<runVars, tape, accountVars, webVars, chatVars, restVars>>

NextTwin == \E r \in Runs : RunDay(r)

SpecTwin == InitTwin /\ [][NextTwin]_vars

----------------------------------------------------------------------------
(* The cooldown state of one symbol over the days of a run, for every shape *)
(* of snapshot the factor API can hand over                                 *)

\* Field values of a snapshot: missing, not a number, zero, or a number.
PriceValues == {NoneVal, BadVal, 0, 10, 11}
RsiValues == {NoneVal, BadVal, 30, 50}

AnySnapshots ==
    { [price |-> p, ema20 |-> e, rsi6 |-> r] :
          p \in PriceValues, e \in PriceValues, r \in RsiValues }

InitTracker ==
    /\ pc = "track"
    /\ day = 1
    /\ cash = 0
    /\ position = 0
    /\ avg_entry_price = <<0, 1>>
    /\ last_buy_date = 0
    /\ buy_cooldown_until = 0
    /\ md = NoMd
    /\ flags = NoFlags
    /\ prop = NoProp
    /\ out = NoOut
    /\ ledger = <<>>
    /\ failed_days = {}
    /\ rows_today = 0
    /\ manual_row = NoRow
    /\ day_start = DayStart(0, 0, <<0, 1>>, 0, 0)
    /\ OthersIdle

\* md_one of the day is s: the flags are computed and the reset block runs.
TrackDay(s) ==
    /\ pc = "track"
    /\ day <= NDays
    /\ LET until == CooldownAfterReset(buy_cooldown_until, day, s)
       IN  /\ buy_cooldown_until' = until
           /\ md' = [price |-> s.price, ema20 |-> s.ema20, rsi6 |-> s.rsi6,
                     buy_cooldown |-> IF until # buy_cooldown_until THEN FALSE
                                      ELSE InLockout(buy_cooldown_until, day)]
    /\ flags' = compute_strategy_flags(s, {})
    /\ pc' = "tracked"
    /\ UNCHANGED <<day, cash, position, avg_entry_price, last_buy_date, prop, out,
                   ledger, failed_days, liveVars, day_start, otherVars>>

\* The day's order is done: sold says that a sell or close was executed,
\* which takes shares bought on an earlier day.
TrackOrder(sold) ==
    /\ pc = "tracked"
    /\ sold => day >= 2
    /\ buy_cooldown_until' =
           CooldownAfterOrder(buy_cooldown_until, IF sold THEN "sell" ELSE "hold",
                              TRUE, day)
    /\ day_start' = DayStart(0, 0, <<0, 1>>, 0, buy_cooldown_until')
    /\ day' = day + 1
    /\ md' = NoMd
    /\ flags' = NoFlags
    /\ pc' = "track"
    /\ UNCHANGED <<cash, position, avg_entry_price, last_buy_date, prop, out,
                   ledger, failed_days, liveVars, otherVars>>

NextTracker ==
    \/ \E s \in AnySnapshots : TrackDay(s)
    \/ \E sold \in BOOLEAN : TrackOrder(sold)

SpecTracker == InitTracker /\ [][NextTracker]_vars

----------------------------------------------------------------------------
(* livetrade.py over the symbols of livetrading_stocklist.csv: one account *)

BatchDays == 2

Symbols == {"600519.SH", "688981.SH"}

BatchInputs ==
    { [kind |-> "day", s |-> [price |-> 10, ema20 |-> 10, rsi6 |-> 50],
       set |-> {}, pr |-> pr] : pr \in TwinProposals }

\* LIVE_CASH_ALLOCATION = equal: the available cash of the account is split
\* evenly over the symbols of the list.
Budget(c) == c \div Cardinality(Symbols)

InitAccount ==
    /\ RunsIdle
    /\ TwinIdle
    /\ WebIdle
    /\ ChatIdle
    /\ RestIdle
    /\ account = InitialCash * RATE_UNIT
    /\ books = [y \in Symbols |->
                   [StartOfRun(1) EXCEPT !.cash = Budget(InitialCash * RATE_UNIT)]]
    /\ alone = [y \in Symbols |->
                   [StartOfRun(1) EXCEPT !.cash = Budget(InitialCash * RATE_UNIT)]]

\* The day of symbol y: its budget is read from the account, the day is
\* processed, and what was spent or received is written back to the account.
\* alone[y] is the same day of a list on which no other symbol trades.
LiveDay(y, inp) ==
    /\ books[y].day <= BatchDays
    /\ LET before == [books[y] EXCEPT !.cash = Budget(account)]
           after == ProcessDay(before, inp)
       IN  /\ books' = [books EXCEPT ![y] = after]
           /\ account' = account - (before.cash - after.cash)
    /\ alone' = [alone EXCEPT ![y] = ProcessDay(alone[y], inp)]
    /\ UNCHANGED <<runVars, twinVars, webVars, chatVars, restVars>>

NextAccount == \E y \in Symbols, inp \in BatchInputs : LiveDay(y, inp)

SpecAccount == InitAccount /\ [][NextAccount]_vars

----------------------------------------------------------------------------
(* app/api/strategy/generate/route.ts: POST, and the wizard's handleSend *)

MaxRequests == 2
StartCredits == 1

Requests == 1..MaxRequests

STATUS_OK == 200
STATUS_BAD_REQUEST == 400
STATUS_UNAUTHORIZED == 401
STATUS_PAYMENT_REQUIRED == 402
STATUS_ERROR == 500

\* A request that was not sent yet.
NoRequest ==
    [pc |-> "idle", user |-> FALSE, seen |-> NoneVal, status |-> 0,
     deducted |-> 0, spawned |-> 0, failed |-> "none"]

\* api.left_credits is the balance the credit service holds for the user,
\* api.credits the balance the wizard shows (NoneVal: not loaded).
InitGenerate ==
    /\ RunsIdle
    /\ TwinIdle
    /\ AccountIdle
    /\ ChatIdle
    /\ RestIdle
    /\ \E left \in 0..StartCredits, shown \in {NoneVal} \cup 0..StartCredits :
           api = [left_credits |-> left, credits |-> shown,
                  reqs |-> [r \in Requests |-> NoRequest]]

\* The answer of request r is st.
Respond(r, st) ==
    [api EXCEPT !.reqs[r].pc = "done", !.reqs[r].status = st]

\* handleSend: nothing is sent when the shown balance is below 1; otherwise
\* the message is posted and the shown balance is lowered by 1.  session says
\* whether the request carries a signed-in user.
handleSend(r, session) ==
    /\ api.reqs[r].pc = "idle"
    /\ ~ (api.credits # NoneVal /\ api.credits < 1)
    /\ api' = [api EXCEPT !.reqs[r].pc = "auth",
                          !.reqs[r].user = session,
                          !.credits = IF @ # NoneVal THEN @ - 1 ELSE @]
    /\ UNCHANGED <<runVars, twinVars, accountVars, chatVars, restVars>>

\* const session = await auth(); no user: 401.
Authenticate(r) ==
    /\ api.reqs[r].pc = "auth"
    /\ api' = IF ~ api.reqs[r].user THEN Respond(r, STATUS_UNAUTHORIZED)
              ELSE [api EXCEPT !.reqs[r].pc = "credits"]
    /\ UNCHANGED <<runVars, twinVars, accountVars, chatVars, restVars>>

\* Mutant: only a negative balance is refused.
InsufficientCreditsBelowZero(left) == left < 0

\* userCredits.left_credits < 1
InsufficientCredits(left) == left < 1

\* const userCredits = await getUserCredits(userId); below 1: 402.
CheckCredits(r) ==
    /\ api.reqs[r].pc = "credits"
    /\ LET seen == api.left_credits
       IN  api' = IF InsufficientCredits(seen)
                  THEN [Respond(r, STATUS_PAYMENT_REQUIRED) EXCEPT !.reqs[r].seen = seen]
                  ELSE [api EXCEPT !.reqs[r].pc = "deduct", !.reqs[r].seen = seen]
    /\ UNCHANGED <<runVars, twinVars, accountVars, chatVars, restVars>>

\* await decreaseCredits({credits: 1}); when it throws: 500.
DeductCredit(r, ok) ==
    /\ api.reqs[r].pc = "deduct"
    /\ api' = IF ok
              THEN [api EXCEPT !.left_credits = @ - 1,
                               !.reqs[r].deducted = 1,
                               !.reqs[r].pc = "parse"]
              ELSE Respond(r, STATUS_ERROR)
    /\ UNCHANGED <<runVars, twinVars, accountVars, chatVars, restVars>>

\* The body is parsed; without a messages array: 400; otherwise the generator
\* process is spawned and its output streamed.
ParseAndSpawn(r, valid) ==
    /\ api.reqs[r].pc = "parse"
    /\ api' = IF valid
              THEN [Respond(r, STATUS_OK) EXCEPT !.reqs[r].spawned = 1]
              ELSE Respond(r, STATUS_BAD_REQUEST)
    /\ UNCHANGED <<runVars, twinVars, accountVars, chatVars, restVars>>

\* auth() or getUserCredits() throws: the outer catch answers 500.
HandlerThrows(r) ==
    /\ api.reqs[r].pc \in {"auth", "credits"}
    /\ api' = Respond(r, STATUS_ERROR)
    /\ UNCHANGED <<runVars, twinVars, accountVars, chatVars, restVars>>

NextGenerate ==
    \/ \E r \in Requests, session \in BOOLEAN : handleSend(r, session)
    \/ \E r \in Requests : Authenticate(r)
    \/ \E r \in Requests : CheckCredits(r)
    \/ \E r \in Requests, ok \in BOOLEAN : DeductCredit(r, ok)
    \/ \E r \in Requests, valid \in BOOLEAN : ParseAndSpawn(r, valid)
    \/ \E r \in Requests : HandlerThrows(r)

SpecGenerate == InitGenerate /\ [][NextGenerate]_vars

\* ---------------------------------------------------------------------------
\* The two charging routes of one user side by side: POST
\* /api/strategy/generate as above and the POST that creates a backtest
\* session.  Both read the balance, compare it with 1 and then call
\* decreaseCredits, each step after an await, so the steps of concurrent
\* requests interleave.  failed names the step of a created session that
\* failed after the charge.

\* POST (session creation) up to the credit check: no user uuid: 401.
PostSession(r, session) ==
    /\ api.reqs[r].pc = "idle"
    /\ api' = IF session
              THEN [api EXCEPT !.reqs[r].pc = "session-credits",
                               !.reqs[r].user = session]
              ELSE Respond(r, STATUS_UNAUTHORIZED)
    /\ UNCHANGED <<runVars, twinVars, accountVars, chatVars, restVars>>

\* const userCredits = await getUserCredits(userId); below 1: 402.
SessionCheckCredits(r) ==
    /\ api.reqs[r].pc = "session-credits"
    /\ LET seen == api.left_credits
       IN  api' = IF InsufficientCredits(seen)
                  THEN [Respond(r, STATUS_PAYMENT_REQUIRED) EXCEPT !.reqs[r].seen = seen]
                  ELSE [api EXCEPT !.reqs[r].pc = "session-deduct",
                                   !.reqs[r].seen = seen]
    /\ UNCHANGED <<runVars, twinVars, accountVars, chatVars, restVars>>

\* await decreaseCredits({credits: 1}); when it throws, the catch answers 500.
SessionDeductCredit(r, ok) ==
    /\ api.reqs[r].pc = "session-deduct"
    /\ api' = IF ok
              THEN [api EXCEPT !.left_credits = @ - 1,
                               !.reqs[r].deducted = 1,
                               !.reqs[r].pc = "session-insert"]
              ELSE Respond(r, STATUS_ERROR)
    /\ UNCHANGED <<runVars, twinVars, accountVars, chatVars, restVars>>

\* The body is parsed and the backtest_sessions row inserted: a body that is
\* not JSON and an insert error are both answered 500.
SessionInsert(r, outcome) ==
    /\ api.reqs[r].pc = "session-insert"
    /\ api' = IF outcome = "created"
              THEN Respond(r, STATUS_OK)
              ELSE [Respond(r, STATUS_ERROR) EXCEPT !.reqs[r].failed = outcome]
    /\ UNCHANGED <<runVars, twinVars, accountVars, chatVars, restVars>>

NextCharge ==
    \/ NextGenerate
    \/ \E r \in Requests, session \in BOOLEAN : PostSession(r, session)
    \/ \E r \in Requests : SessionCheckCredits(r)
    \/ \E r \in Requests, ok \in BOOLEAN : SessionDeductCredit(r, ok)
    \/ \E r \in Requests, outcome \in {"created", "body", "insert"} :
           SessionInsert(r, outcome)

SpecCharge == InitGenerate /\ [][NextCharge]_vars

\* ---------------------------------------------------------------------------
\* The chat of the backtest page: chatHistory and chatMode are the page's
\* state, messages and isLoading the state of useAIStrategy inside the wizard,
\* which stays mounted while it is closed.  chat.timers are the deferred
\* onHistoryChange calls not yet run, in the order they were scheduled;
\* chat.stream is the session whose response is being read (0: none) and
\* chat.left the chunks it still has.  chat.session counts the sessions the
\* page has begun, and a message's "from" names the sessions whose text it
\* holds: both are history kept for the properties, the code has neither.
MaxSessions == 3
MaxChunks == 2
MaxTimers == 2
MaxMessages == 3

InitChat ==
    /\ RunsIdle
    /\ TwinIdle
    /\ AccountIdle
    /\ WebIdle
    /\ RestIdle
    /\ chat = [chatHistory |-> <<>>, chatMode |-> "null",
               isWizardOpen |-> FALSE, session |-> 0,
               messages |-> <<>>, isLoading |-> FALSE,
               stream |-> 0, left |-> 0,
               timers |-> <<>>, hasInitialized |-> FALSE]

\* setMessages: the local state becomes resolved, and onHistoryChange(resolved)
\* is deferred with setTimeout(..., 0).
setMessages(c, resolved) ==
    [c EXCEPT !.messages = resolved, !.timers = Append(@, resolved)]

\* The effect on [initialHistory]: the local messages are emptied when the
\* parent's history is empty, seeded from it when they are empty themselves.
SyncWithParent(c) ==
    IF Len(c.chatHistory) = 0 /\ Len(c.messages) > 0
    THEN [c EXCEPT !.messages = <<>>]
    ELSE IF Len(c.chatHistory) > 0 /\ Len(c.messages) = 0
         THEN [c EXCEPT !.messages = c.chatHistory]
         ELSE c

\* The wizard's initialisation effect: an open wizard with no message greets
\* once (the page passes no hiddenContext, so both branches are a setMessages
\* of one assistant message); a closed one forgets that it has greeted.
Initialize(c) ==
    IF c.isWizardOpen
    THEN IF Len(c.messages) = 0 /\ ~c.hasInitialized
         THEN setMessages([c EXCEPT !.hasInitialized = TRUE],
                          <<[role |-> "assistant", from |-> {c.session}]>>)
         ELSE c
    ELSE [c EXCEPT !.hasInitialized = FALSE]

\* The render that follows a change of chatHistory, with its effects in the
\* order the wizard declares them.
Render(c) == Initialize(SyncWithParent(c))

\* The stream loop's and the catch block's update of the last message with
\* text of session s; on an empty list the write goes to index -1 and the
\* list stays empty.
AppendToLast(msgs, s) ==
    IF Len(msgs) = 0
    THEN msgs
    ELSE [msgs EXCEPT ![Len(msgs)].from = @ \cup {s}]

\* handleCreateNew and handleEdit: a new session with an emptied history.  The
\* open wizard covers the page, so the page's buttons are reached only while
\* it is closed.
NewSession(mode) ==
    /\ ~chat.isWizardOpen
    /\ chat.session < MaxSessions
    /\ chat' = Render([chat EXCEPT !.chatHistory = <<>>,
                                   !.chatMode = mode,
                                   !.isWizardOpen = TRUE,
                                   !.session = @ + 1])
    /\ Len(chat'.timers) <= MaxTimers
    /\ UNCHANGED <<runVars, twinVars, accountVars, webVars, restVars>>

handleCreateNew == NewSession("creation")

handleEdit == NewSession("edit")

\* handleDiagnose with a report to diagnose: the history is emptied only when
\* the previous mode was not diagnosis; otherwise the session is resumed.
handleDiagnose ==
    /\ ~chat.isWizardOpen
    /\ IF chat.chatMode # "diagnosis"
       THEN /\ chat.session < MaxSessions
            /\ chat' = Render([chat EXCEPT !.chatHistory = <<>>,
                                           !.chatMode = "diagnosis",
                                           !.isWizardOpen = TRUE,
                                           !.session = @ + 1])
       ELSE chat' = Initialize([chat EXCEPT !.isWizardOpen = TRUE])
    /\ Len(chat'.timers) <= MaxTimers
    /\ UNCHANGED <<runVars, twinVars, accountVars, webVars, restVars>>

\* onClose: the wizard is hidden; a response being read is not stopped.
onClose ==
    /\ chat.isWizardOpen
    /\ chat' = Initialize([chat EXCEPT !.isWizardOpen = FALSE])
    /\ UNCHANGED <<runVars, twinVars, accountVars, webVars, restVars>>

\* sendMessage up to the fetch: the user's message and an empty assistant
\* message are appended, and the response of this session starts.
sendMessage ==
    /\ chat.isWizardOpen
    /\ ~chat.isLoading
    /\ Len(chat.messages) + 2 <= MaxMessages
    /\ Len(chat.timers) < MaxTimers
    /\ chat' = [setMessages(chat,
                    chat.messages \o
                    <<[role |-> "user", from |-> {chat.session}],
                      [role |-> "assistant", from |-> {chat.session}]>>)
                EXCEPT !.isLoading = TRUE,
                       !.stream = chat.session,
                       !.left = MaxChunks]
    /\ UNCHANGED <<runVars, twinVars, accountVars, webVars, restVars>>

\* One line of the response is read and added to the last message.
StreamChunk ==
    /\ chat.stream # 0
    /\ chat.left > 0
    /\ Len(chat.timers) < MaxTimers
    /\ chat' = Initialize(
                   [setMessages(chat, AppendToLast(chat.messages, chat.stream))
                    EXCEPT !.left = @ - 1])
    /\ UNCHANGED <<runVars, twinVars, accountVars, webVars, restVars>>

\* The response ends (done), at any point of the stream.
StreamDone ==
    /\ chat.stream # 0
    /\ chat' = [chat EXCEPT !.isLoading = FALSE, !.stream = 0, !.left = 0]
    /\ UNCHANGED <<runVars, twinVars, accountVars, webVars, restVars>>

\* The fetch or a read fails with an error other than an abort: the error text
\* is added to the last message.
StreamError ==
    /\ chat.stream # 0
    /\ Len(chat.timers) < MaxTimers
    /\ chat' = Initialize(
                   [setMessages(chat, AppendToLast(chat.messages, chat.stream))
                    EXCEPT !.isLoading = FALSE, !.stream = 0, !.left = 0])
    /\ UNCHANGED <<runVars, twinVars, accountVars, webVars, restVars>>

\* stop: the response is aborted from the open wizard; an abort adds no text.
stop ==
    /\ chat.isWizardOpen
    /\ chat.stream # 0
    /\ chat' = [chat EXCEPT !.isLoading = FALSE, !.stream = 0, !.left = 0]
    /\ UNCHANGED <<runVars, twinVars, accountVars, webVars, restVars>>

\* The oldest deferred onHistoryChange runs: setChatHistory(resolved), and the
\* render that follows.
HistoryTimer ==
    /\ Len(chat.timers) > 0
    /\ chat' = Render([chat EXCEPT !.chatHistory = Head(chat.timers),
                                   !.timers = Tail(@)])
    /\ Len(chat'.timers) <= MaxTimers
    /\ UNCHANGED <<runVars, twinVars, accountVars, webVars, restVars>>

NextChat ==
    \/ handleCreateNew
    \/ handleEdit
    \/ handleDiagnose
    \/ onClose
    \/ sendMessage
    \/ StreamChunk
    \/ StreamDone
    \/ StreamError
    \/ stop
    \/ HistoryTimer

SpecChat == InitChat /\ [][NextChat]_vars

\* ---------------------------------------------------------------------------
\* The response stream of one POST /api/strategy/generate.  ctrl.stream is the
\* state of the ReadableStream's controller ("open", "closed" after
\* controller.close(), "cancelled" after the consumer went away); enqueue and
\* close throw unless it is open.  ctrl.close_calls and ctrl.late_enqueues
\* count the calls of controller.close() and the calls of controller.enqueue()
\* made after a call of controller.close(); ctrl.caught counts the exceptions
\* the try blocks swallowed.  These three are history for the properties.
MaxData == 3

InitStream ==
    /\ RunsIdle
    /\ TwinIdle
    /\ AccountIdle
    /\ WebIdle
    /\ ChatIdle
    /\ FeedIdle
    /\ JobIdle
    /\ NdjsonIdle
    /\ HookIdle
    /\ ctrl = [isClosed |-> FALSE, stream |-> "open",
               data |-> 0, enqueued |-> 0,
               closed_event |-> FALSE, error_event |-> FALSE, code |-> NoneVal,
               close_calls |-> 0, late_enqueues |-> 0, caught |-> 0]

\* controller.enqueue(data) inside the try block.
TryEnqueue(c) ==
    LET called == [c EXCEPT !.late_enqueues =
                       IF c.close_calls > 0 THEN @ + 1 ELSE @]
    IN  IF c.stream = "open"
        THEN [called EXCEPT !.enqueued = @ + 1]
        ELSE [called EXCEPT !.caught = @ + 1]

\* controller.close() inside the try block.
TryClose(c) ==
    LET called == [c EXCEPT !.close_calls = @ + 1]
    IN  IF c.stream = "open"
        THEN [called EXCEPT !.stream = "closed"]
        ELSE [called EXCEPT !.caught = @ + 1]

safeEnqueue(c) ==
    IF c.isClosed THEN c ELSE TryEnqueue(c)

\* Mutant: the flag is tested but never set.
safeCloseFlagNotSet(c) ==
    IF c.isClosed THEN c ELSE TryClose(c)

safeClose(c) ==
    IF c.isClosed THEN c ELSE TryClose([c EXCEPT !.isClosed = TRUE])

\* child.stdout.on('data'): at any point of the request.
StdoutData ==
    /\ ctrl.data < MaxData
    /\ ctrl' = safeEnqueue([ctrl EXCEPT !.data = @ + 1])
    /\ UNCHANGED <<baseVars, feed, job, ndjson, hook>>

\* child.on('close'), once, with the exit code.
ChildClose(code) ==
    /\ ~ctrl.closed_event
    /\ ctrl' = safeClose([ctrl EXCEPT !.closed_event = TRUE, !.code = code])
    /\ UNCHANGED <<baseVars, feed, job, ndjson, hook>>

\* child.on('error'), once, before or after the close event.
ChildError ==
    /\ ~ctrl.error_event
    /\ ctrl' = safeClose(safeEnqueue([ctrl EXCEPT !.error_event = TRUE]))
    /\ UNCHANGED <<baseVars, feed, job, ndjson, hook>>

\* The consumer of the response goes away while the stream is open.
ConsumerCancels ==
    /\ ctrl.stream = "open"
    /\ ctrl' = [ctrl EXCEPT !.stream = "cancelled"]
    /\ UNCHANGED <<baseVars, feed, job, ndjson, hook>>

NextStream ==
    \/ StdoutData
    \/ \E code \in {0, 1} : ChildClose(code)
    \/ ChildError
    \/ ConsumerCancels

SpecStream == InitStream /\ [][NextStream]_vars

\* ---------------------------------------------------------------------------
\* One POST /api/backtest/run.  job.file says whether strategy_<runId>.json
\* exists, job.stream is the state of the response stream's controller, on
\* which enqueue and close throw unless it is open; nothing in the handlers
\* catches such a throw, and the handler that made the call ends there.
\* job.rejected counts those calls and job.close_calls the calls of
\* controller.close(): history for the properties.
MaxOutput == 3

InitRun ==
    /\ RunsIdle
    /\ TwinIdle
    /\ AccountIdle
    /\ WebIdle
    /\ ChatIdle
    /\ FeedIdle
    /\ CtrlIdle
    /\ NdjsonIdle
    /\ HookIdle
    /\ job = [pc |-> "received", status |-> 0, file |-> FALSE,
              stream |-> "none", stdout |-> 0, stderr |-> 0, enqueued |-> 0,
              closed_event |-> FALSE, error_event |-> FALSE, code |-> NoneVal,
              close_calls |-> 0, rejected |-> 0]

\* POST up to the response: a body without one of the four fields is answered
\* 400; otherwise the config file is written and the child spawned.
PostRun(complete) ==
    /\ job.pc = "received"
    /\ job' = IF complete
              THEN [job EXCEPT !.pc = "running", !.status = STATUS_OK,
                               !.file = TRUE, !.stream = "open"]
              ELSE [job EXCEPT !.pc = "done", !.status = STATUS_BAD_REQUEST]
    /\ UNCHANGED <<baseVars, feed, ctrl, ndjson, hook>>

\* controller.enqueue(...)
Enqueue(j) ==
    IF j.stream = "open"
    THEN [j EXCEPT !.enqueued = @ + 1]
    ELSE [j EXCEPT !.rejected = @ + 1]

\* controller.close()
Close(j) ==
    IF j.stream = "open"
    THEN [j EXCEPT !.stream = "closed", !.close_calls = @ + 1]
    ELSE [j EXCEPT !.rejected = @ + 1, !.close_calls = @ + 1]

\* ...; controller.close() where the close is not reached when the call
\* before it threw.
ThenClose(before, after) ==
    IF after.rejected > before.rejected THEN after ELSE Close(after)

\* child.stdout.on('data'), until the close event.
StdoutChunk ==
    /\ job.pc = "running"
    /\ ~job.closed_event
    /\ job.stdout < MaxOutput
    /\ job' = Enqueue([job EXCEPT !.stdout = @ + 1])
    /\ UNCHANGED <<baseVars, feed, ctrl, ndjson, hook>>

\* child.stderr.on('data'), until the close event.
StderrChunk ==
    /\ job.pc = "running"
    /\ ~job.closed_event
    /\ job.stderr < MaxOutput
    /\ job' = Enqueue([job EXCEPT !.stderr = @ + 1])
    /\ UNCHANGED <<baseVars, feed, ctrl, ndjson, hook>>

\* fs.unlinkSync(configFilePath) inside try/catch.
Unlink(j) == [j EXCEPT !.file = FALSE]

\* child.on('close'): the file is removed, a non-zero code is reported, the
\* stream is closed.
RunClose(code) ==
    /\ job.pc = "running"
    /\ ~job.closed_event
    /\ LET j0 == Unlink([job EXCEPT !.closed_event = TRUE, !.code = code])
           j1 == IF code # 0 THEN Enqueue(j0) ELSE j0
       IN  job' = ThenClose(j0, j1)
    /\ UNCHANGED <<baseVars, feed, ctrl, ndjson, hook>>

\* child.on('error'): the error is reported and the stream closed; a close
\* event may follow or not.
RunError ==
    /\ job.pc = "running"
    /\ ~job.error_event
    /\ ~job.closed_event
    /\ LET j0 == [job EXCEPT !.error_event = TRUE]
       IN  job' = ThenClose(j0, Enqueue(j0))
    /\ UNCHANGED <<baseVars, feed, ctrl, ndjson, hook>>

NextRun ==
    \/ \E complete \in BOOLEAN : PostRun(complete)
    \/ StdoutChunk
    \/ StderrChunk
    \/ \E code \in {0, 1} : RunClose(code)
    \/ RunError

SpecRun == InitRun /\ [][NextRun]_vars

\* ---------------------------------------------------------------------------
\* The reader loop of useAIStrategy over one response.  ndjson.bytes is the
\* whole response body, ndjson.pos how much of it the reader has handed out;
\* each read hands out a chunk of any length.  The bytes are "{", "}", the
\* newline "nl", and "lead" and "trail", the two bytes of one character "e".
\* A line "{}" is a reasoning event, a line "{e}" a content event, every other
\* line is not JSON.  ndjson.events are the events applied to the last
\* message, in order, and ndjson.reads the chunks read: history for the
\* properties.
MaxBytes == 5

Bytes == {"{", "}", "nl", "lead", "trail"}

Cons(c, d) == [d EXCEPT !.text = <<c>> \o @]

\* decoder.decode(value, {stream: true}): a lead byte at the end of a chunk is
\* held (pending) until the next chunk; a lead byte not followed by a trail
\* byte, and a trail byte alone, decode to the replacement character "?".
RECURSIVE Decode(_, _)
Decode(pending, bytes) ==
    IF Len(bytes) = 0
    THEN [text |-> <<>>, pending |-> pending]
    ELSE LET b == Head(bytes)
         IN  IF pending
             THEN IF b = "trail"
                  THEN Cons("e", Decode(FALSE, Tail(bytes)))
                  ELSE Cons("?", Decode(FALSE, bytes))
             ELSE IF b = "lead"
                  THEN Decode(TRUE, Tail(bytes))
                  ELSE IF b = "trail"
                       THEN Cons("?", Decode(FALSE, Tail(bytes)))
                       ELSE Cons(b, Decode(FALSE, Tail(bytes)))

\* buffer.split('\n'): the pieces between the newlines, at least one.
RECURSIVE SplitLines(_)
SplitLines(text) ==
    IF \A i \in 1..Len(text) : text[i] # "nl"
    THEN <<text>>
    ELSE LET i == CHOOSE k \in 1..Len(text) :
                      /\ text[k] = "nl"
                      /\ \A m \in 1..k - 1 : text[m] # "nl"
         IN  <<SubSeq(text, 1, i - 1)>> \o SplitLines(SubSeq(text, i + 1, Len(text)))

\* Mutant: the piece after the last newline is thrown away.
PartialLineDropped(lines) == <<>>

\* buffer = lines.pop() || '': the piece after the last newline is kept.
PartialLine(lines) == lines[Len(lines)]

\* JSON.parse(line) of a line that is not blank; "invalid" when it throws.
ParseLine(line) ==
    IF line = <<"{", "}">> THEN "reasoning"
    ELSE IF line = <<"{", "e", "}">> THEN "content"
    ELSE "invalid"

\* for (const line of lines): blank lines and lines that do not parse are
\* passed over, the others applied in order.
RECURSIVE EventsOf(_)
EventsOf(lines) ==
    IF Len(lines) = 0
    THEN <<>>
    ELSE (IF Len(lines[1]) > 0 /\ ParseLine(lines[1]) # "invalid"
          THEN <<ParseLine(lines[1])>>
          ELSE <<>>) \o EventsOf(Tail(lines))

BodiesUpToLen(n) == UNION {[1..k -> Bytes] : k \in 0..n}

InitReader ==
    /\ RunsIdle
    /\ TwinIdle
    /\ AccountIdle
    /\ WebIdle
    /\ ChatIdle
    /\ FeedIdle
    /\ CtrlIdle
    /\ JobIdle
    /\ HookIdle
    /\ \E body \in BodiesUpToLen(MaxBytes) :
           ndjson = [bytes |-> body, pos |-> 0, pending |-> FALSE,
                     buffer |-> <<>>, events |-> <<>>, reads |-> 0,
                     content |-> 0, reasoning |-> 0, done |-> FALSE]

\* One pass of the loop with a chunk of n bytes: decode, add to the buffer,
\* split, keep the last piece, apply the lines before it to the last message.
ReadChunk(n) ==
    /\ ~ndjson.done
    /\ ndjson.pos + n <= Len(ndjson.bytes)
    /\ LET d     == Decode(ndjson.pending,
                           SubSeq(ndjson.bytes, ndjson.pos + 1, ndjson.pos + n))
           lines == SplitLines(ndjson.buffer \o d.text)
           evs   == EventsOf(SubSeq(lines, 1, Len(lines) - 1))
       IN  ndjson' = [ndjson EXCEPT
               !.pos = @ + n,
               !.reads = @ + 1,
               !.pending = d.pending,
               !.buffer = PartialLine(lines),
               !.events = @ \o evs,
               !.content = @ + Cardinality({i \in 1..Len(evs) : evs[i] = "content"}),
               !.reasoning = @ + Cardinality({i \in 1..Len(evs) : evs[i] = "reasoning"})]
    /\ UNCHANGED <<baseVars, feed, ctrl, job, hook>>

\* reader.read() answers done: the loop ends, what is in the buffer is left.
ReadDone ==
    /\ ~ndjson.done
    /\ ndjson.pos = Len(ndjson.bytes)
    /\ ndjson' = [ndjson EXCEPT !.done = TRUE]
    /\ UNCHANGED <<baseVars, feed, ctrl, job, hook>>

NextReader ==
    \/ \E n \in 1..MaxBytes : ReadChunk(n)
    \/ ReadDone

SpecReader == InitReader /\ [][NextReader]_vars

\* ---------------------------------------------------------------------------
\* The requests of useAIStrategy.  hook.isLoading is the loading flag,
\* hook.ref the request whose AbortController abortControllerRef holds (0:
\* null), hook.reqs[r] the position of request r: "unsent", "flight" (its
\* fetch or read is pending), "aborted" (its signal was aborted and its catch
\* and finally blocks have not run yet) or "ended".
MaxSends == 5

Sends == 1..MaxSends

InitHook ==
    /\ RunsIdle
    /\ TwinIdle
    /\ AccountIdle
    /\ WebIdle
    /\ ChatIdle
    /\ FeedIdle
    /\ CtrlIdle
    /\ JobIdle
    /\ NdjsonIdle
    /\ hook = [isLoading |-> FALSE, ref |-> 0,
               reqs |-> [r \in Sends |-> "unsent"]]

\* sendMessage up to its first await, called with the flag as it is now:
\* nothing while isLoading; otherwise the flag is set, a new controller stored
\* and the fetch started.
HookSend(r) ==
    /\ hook.reqs[r] = "unsent"
    /\ \A q \in 1..r - 1 : hook.reqs[q] # "unsent"
    /\ ~hook.isLoading
    /\ hook' = [hook EXCEPT !.isLoading = TRUE, !.ref = r, !.reqs[r] = "flight"]
    /\ UNCHANGED <<baseVars, feed, ctrl, job, ndjson>>

\* stop: the stored controller is aborted, the ref and the flag cleared.
HookStop ==
    /\ hook.ref # 0
    /\ hook' = [hook EXCEPT
           !.reqs[hook.ref] = IF @ = "flight" THEN "aborted" ELSE @,
           !.ref = 0,
           !.isLoading = FALSE]
    /\ UNCHANGED <<baseVars, feed, ctrl, job, ndjson>>

\* The finally block of handleGenerateStrategy in page.tsx.bak, for comparison:
\* the flag and the ref are cleared only when the ref still holds the request
\* that is ending.
FinallyOwned(h, r) ==
    IF h.ref = r THEN [h EXCEPT !.isLoading = FALSE, !.ref = 0] ELSE h

\* finally { setIsLoading(false); abortControllerRef.current = null; }
Finally(h, r) ==
    [h EXCEPT !.isLoading = FALSE, !.ref = 0]

\* The end of sendMessage for request r: the response was read to its end, or
\* the fetch or a read threw (an abort among them); catch, then finally.
HookSettle(r) ==
    /\ hook.reqs[r] \in {"flight", "aborted"}
    /\ hook' = Finally([hook EXCEPT !.reqs[r] = "ended"], r)
    /\ UNCHANGED <<baseVars, feed, ctrl, job, ndjson>>

NextHook ==
    \/ \E r \in Sends : HookSend(r)
    \/ HookStop
    \/ \E r \in Sends : HookSettle(r)

SpecHook == InitHook /\ [][NextHook]_vars

\* ---------------------------------------------------------------------------
\* The chart routes /api/performance-summary and /api/kline-data.  A row's date
\* is an instant, counted in parts of a day (PartsPerDay to the calendar day),
\* or BadVal for a value new Date() cannot read; feed.rows are the rows of
\* daily_metrics or ohlc as received, feed.trades the rows of trades.
PartsPerDay == 2
MaxRows == 3
MaxTrades == 2

Instants == {0, 1, 2}

\* new Date(r.date).toISOString().slice(0, 10): the calendar day of the instant.
DateKey(d) == d \div PartsPerDay

\* Map.set: the value of a key already present is replaced in place, a new key
\* is added at the end.
MapSetKeepFirst(m, k, r) ==
    IF \E i \in 1..Len(m) : m[i].key = k
    THEN m
    ELSE Append(m, [key |-> k, row |-> r])

MapSet(m, k, r) ==
    IF \E i \in 1..Len(m) : m[i].key = k
    THEN [i \in 1..Len(m) |-> IF m[i].key = k THEN [key |-> k, row |-> r] ELSE m[i]]
    ELSE Append(m, [key |-> k, row |-> r])

\* rows.forEach(r => map.set(day of r.date, r))
RECURSIVE DedupeByDate(_)
DedupeByDate(rows) ==
    IF Len(rows) = 0
    THEN <<>>
    ELSE MapSet(DedupeByDate(SubSeq(rows, 1, Len(rows) - 1)),
                DateKey(rows[Len(rows)].date), rows[Len(rows)])

\* Array.from(map.values())
MapValues(m) == [i \in 1..Len(m) |-> m[i].row]

\* Array.prototype.sort with the comparator on getTime(): stable, ascending.
RECURSIVE SortByTime(_)
SortByTime(rows) ==
    IF Len(rows) = 0
    THEN <<>>
    ELSE LET rest == SortByTime(SubSeq(rows, 1, Len(rows) - 1))
             r    == rows[Len(rows)]
             keep == Cardinality({i \in 1..Len(rest) : rest[i].date <= r.date})
         IN  SubSeq(rest, 1, keep) \o <<r>> \o SubSeq(rest, keep + 1, Len(rest))

UniqueRows(rows) == SortByTime(MapValues(DedupeByDate(rows)))

\* toISOString() throws on a date it cannot read, and the route answers 500.
Readable(rows) == \A i \in 1..Len(rows) : rows[i].date # BadVal

RECURSIVE SelectSignals(_)
SelectSignals(rows) ==
    IF Len(rows) = 0
    THEN <<>>
    ELSE LET r == rows[1]
         IN  (IF r.side \in {"buy", "sell", "close"}
              THEN <<[trade_date |-> r.date, signal |-> r.side]>>
              ELSE <<>>) \o SelectSignals(Tail(rows))

RowsUpToLen(n) ==
    UNION {[1..k -> [date : Instants \cup {BadVal}, equity : {1, 2}]] : k \in 0..n}

TradesUpToLen(n) ==
    UNION {[1..k -> [date : Instants, side : {"buy", "hold"}]] : k \in 0..n}

NoResponse == [status |-> 0, series |-> <<>>, trades |-> <<>>, signals |-> <<>>]

InitFeed ==
    /\ RunsIdle
    /\ TwinIdle
    /\ AccountIdle
    /\ WebIdle
    /\ ChatIdle
    /\ CtrlIdle
    /\ JobIdle
    /\ NdjsonIdle
    /\ HookIdle
    /\ \E rows \in RowsUpToLen(MaxRows), trades \in TradesUpToLen(MaxTrades) :
           feed = [route |-> "none", rows |-> rows, trades |-> trades,
                   resp |-> NoResponse]

\* GET /api/performance-summary once daily_metrics has answered.
GetPerformanceSummary ==
    /\ feed.route = "none"
    /\ feed' = [feed EXCEPT
           !.route = "performance-summary",
           !.resp = IF Readable(feed.rows)
                    THEN [NoResponse EXCEPT
                             !.status = STATUS_OK,
                             !.series = [i \in 1..Len(UniqueRows(feed.rows)) |->
                                 [timestamp |-> UniqueRows(feed.rows)[i].date,
                                  equity |-> UniqueRows(feed.rows)[i].equity]]]
                    ELSE [NoResponse EXCEPT !.status = STATUS_ERROR]]
    /\ UNCHANGED <<baseVars, ctrl, job, ndjson, hook>>

\* GET /api/kline-data once ohlc and trades have answered.
GetKlineData ==
    /\ feed.route = "none"
    /\ feed' = [feed EXCEPT
           !.route = "kline-data",
           !.resp = IF Readable(feed.rows) /\ Readable(feed.trades)
                    THEN [status |-> STATUS_OK,
                          series |-> [i \in 1..Len(UniqueRows(feed.rows)) |->
                                 [timestamp |-> UniqueRows(feed.rows)[i].date,
                                  equity |-> UniqueRows(feed.rows)[i].equity]],
                          trades |-> UniqueRows(feed.trades),
                          signals |-> SelectSignals(UniqueRows(feed.trades))]
                    ELSE [NoResponse EXCEPT !.status = STATUS_ERROR]]
    /\ UNCHANGED <<baseVars, ctrl, job, ndjson, hook>>

NextFeed ==
    \/ GetPerformanceSummary
    \/ GetKlineData

SpecFeed == InitFeed /\ [][NextFeed]_vars

----------------------------------------------------------------------------
(* Properties *)

SellOrClose == {"sell", "close"}

\* C1: a sell or close booked on a day before the settlement date of the most
\* recent buy (date_T < can_sell_after, in particular the day of the buy) is
\* never executed: its row has success = false and cash and position stay
\* as they were.
C1_SettlementBlock ==
    [][ ( /\ pc = "live"
          /\ rows_today' = rows_today + 1
          /\ manual_row'.signal \in SellOrClose
          /\ day < can_sell_after(last_buy_date) )
        => ( /\ ~ out'.success
             /\ cash' = cash
             /\ position' = position
             /\ avg_entry_price' = avg_entry_price ) ]_vars

\* A sell of shares that are held and reported as filled is refused on the
\* day of the buy.
C1_Witness ==
    /\ pc = "live"
    /\ manual_row.signal \in SellOrClose
    /\ manual_row.success
    /\ last_buy_date = day
    /\ out.quantity > 0
    /\ out.quantity <= position
    /\ ~ out.success

\* C2: after every day of a run cash and position are not negative, and no
\* row of the ledger records a negative cash.
C2_NonNegative ==
    /\ cash >= 0
    /\ position >= 0
    /\ \A i \in 1..Len(ledger) : ledger[i].available_cash >= 0

\* A buy asked for more than the cash can pay was cut and executed, and the
\* cash left does not pay for one more lot.
C2_Witness ==
    /\ pc = "written"
    /\ prop.signal = "buy"
    /\ out.signal = "buy"
    /\ out.success
    /\ out.quantity < prop.qty_lots * LOT_SIZE
    /\ cash < BuyCost(LOT_SIZE, md.price)

\* C4: on a day with is_super_trend set and RSI(6) below the extreme
\* threshold a proposed sell or close becomes hold with quantity 0 and no
\* share is sold.
C4_TrendExemption ==
    [][ ( /\ pc = "decide"
          /\ pc' = "written"
          /\ prop'.signal \in SellOrClose
          /\ "is_super_trend" \in flags.set
          /\ IsNum(md.rsi6)
          /\ md.rsi6 < EXTREME_RSI )
        => ( /\ out'.signal = "hold"
             /\ out'.quantity = 0
             /\ position' = position
             /\ cash' = cash ) ]_vars

\* A sell of shares that may be sold today is held back at RSI 85.
C4_Witness ==
    /\ pc = "written"
    /\ prop.signal = "sell"
    /\ "is_super_trend" \in flags.set
    /\ md.rsi6 = 85
    /\ position >= LOT_SIZE
    /\ Sellable(last_buy_date, day)
    /\ out.signal = "hold"
    /\ out.quantity = 0

\* The day's cooldown as the decision sees it: locked, and the release
\* condition is not met.
LockedNotReleased == md.buy_cooldown /\ ~ flags.is_cooldown_release_met

\* C3: while the symbol is locked and the release condition is not met, a
\* proposed buy is forced to hold with quantity 0 and no buy is executed.
C3_NoBuyWhileLocked ==
    ( /\ pc = "written"
      /\ prop.signal = "buy"
      /\ LockedNotReleased )
    => ( /\ out.signal = "hold"
         /\ out.quantity = 0 )

\* The five flags the claim names.
NamedBullish ==
    \/ "is_super_trend" \in flags.set
    \/ "is_momentum_buy" \in flags.set
    \/ "is_mean_reversion_buy" \in flags.set
    \/ "is_exploratory_buy" \in flags.set
    \/ flags.is_cooldown_release_met

\* C5 as stated: with none of is_super_trend, is_momentum_buy,
\* is_mean_reversion_buy, is_exploratory_buy, is_cooldown_release_met set, a
\* proposed buy is forced to hold with quantity 0.
C5_AsStated ==
    ( /\ pc = "written"
      /\ prop.signal = "buy"
      /\ ~ NamedBullish )
    => ( /\ out.signal = "hold"
         /\ out.quantity = 0 )

\* C5 as amended: is_trend_buy_strict counts as a bullish flag too.  A buy
\* is executed only on a day with one of the six set; with none of the six
\* set a proposed buy is forced to hold with quantity 0.
C5_EligibilityGate ==
    /\ ( /\ pc = "written"
         /\ prop.signal = "buy"
         /\ ~ NamedBullish
         /\ "is_trend_buy_strict" \notin flags.set )
       => ( /\ out.signal = "hold"
            /\ out.quantity = 0
            /\ cash = day_start.cash
            /\ position = day_start.position )
    /\ ( /\ pc = "written"
         /\ out.signal = "buy"
         /\ out.success )
       => ( NamedBullish \/ "is_trend_buy_strict" \in flags.set )

\* A buy that nothing else stops (not locked, cash for a lot) is held back
\* by the gate alone.
C5_Witness ==
    /\ pc = "written"
    /\ prop.signal = "buy"
    /\ prop.raises = "none"
    /\ flags.set = {}
    /\ ~ flags.is_cooldown_release_met
    /\ ~ md.buy_cooldown
    /\ cash >= BuyCost(LOT_SIZE, md.price)
    /\ out.signal = "hold"
    /\ out.quantity = 0

\* The order after the two veto gates of the buy branch.
AfterGates ==
    EligibilityGate(CooldownCheck(Order(prop.signal, prop.qty_lots), md, prop.raises),
                    flags)

\* C6: when the cooldown check or the eligibility gate has forced a proposed
\* buy to hold, the final order is hold with quantity 0, whatever the
\* unrealized gain and is_momentum_buy are.
C6_VetoStaysVeto ==
    ( /\ pc = "written"
      /\ prop.signal = "buy"
      /\ AfterGates.signal = "hold" )
    => ( /\ out.signal = "hold"
         /\ out.quantity = 0 )

\* An exception was raised while the hard rules of the day were evaluated.
RuleRaised ==
    \/ prop.signal = "buy" /\ prop.raises # "none"
    \/ /\ prop.signal \in SellOrClose
       /\ "is_super_trend" \in flags.set
       /\ md.rsi6 = BadVal

\* C7: when evaluating a rule raises, the day's final order is (hold, 0).
C7_FailSafe ==
    ( pc = "written" /\ RuleRaised )
    => ( /\ out.signal = "hold"
         /\ out.quantity = 0 )

\* The portfolio is what it was when the day began.
PortfolioAsAtDayStart ==
    /\ cash = day_start.cash
    /\ position = day_start.position
    /\ avg_entry_price = day_start.avg_entry_price
    /\ last_buy_date = day_start.last_buy_date

\* The day failed: no snapshot, or no answer of the decision source.
DayFailed == pc = "written" /\ (day \in failed_days \/ prop.signal = "fail")

\* C8 as stated: after a failed day cash, position, avg_entry_price,
\* last_buy_date and the cooldown state are what they were before the day.
C8_AsStated ==
    DayFailed
    => ( /\ PortfolioAsAtDayStart
         /\ buy_cooldown_until = day_start.buy_cooldown_until )

\* C8 as amended: after a failed day the portfolio is what it was before the
\* day and the day is recorded as failed.  The cooldown is unchanged when the
\* fetch failed; when the decision source failed it is unchanged or was
\* cleared by the early reset, which runs before the decision source is
\* called, on a locked day whose snapshot meets the release test.
C8_FailedDayAtomic ==
    DayFailed
    => ( /\ PortfolioAsAtDayStart
         /\ day \in failed_days
            => ( /\ buy_cooldown_until = day_start.buy_cooldown_until
                 /\ \A i \in 1..Len(ledger) : ledger[i].date # day )
         /\ prop.signal = "fail"
            => ( /\ ledger[Len(ledger)].date = day
                 /\ ~ ledger[Len(ledger)].success
                 /\ \/ buy_cooldown_until = day_start.buy_cooldown_until
                    \/ /\ buy_cooldown_until = 0
                       /\ InLockout(day_start.buy_cooldown_until, day)
                       /\ reset_cooldown(md) ) )

\* The decision source failed on a locked day that the early reset had
\* already unlocked, with shares in the portfolio.
C8_Witness ==
    /\ pc = "written"
    /\ prop.signal = "fail"
    /\ position > 0
    /\ day_start.buy_cooldown_until # 0
    /\ buy_cooldown_until = 0

\* Every requested day was stepped through: skipped, or a row was written.
AllDaysStepped ==
    \A d \in 1..NDays :
        d \in failed_days \/ \E i \in 1..Len(ledger) : ledger[i].date = d

\* The steps the run still has to take: three per day that is left, less
\* those of the current day that are done.
StepsLeft ==
    3 * (NDays + 1 - day)
    + (CASE pc = "fetch" -> 2 [] pc = "decide" -> 1 [] OTHER -> 0)

\* C9: a run over a finite day list reaches its terminal state after
\* stepping through every requested day, whatever failed on the way: until
\* the terminal state a step can always be taken, every step brings the end
\* nearer, and the terminal state is entered only after the last day, with
\* every day stepped through.
C9_RunCompletes ==
    /\ [] ( /\ pc # "done" => ENABLED Next
            /\ pc = "done" => (day = NDays + 1 /\ AllDaysStepped)
            /\ StepsLeft >= 0 )
    /\ [][StepsLeft' < StepsLeft]_vars

\* A finished run with a skipped day, a day without a decision, a refused
\* order and an executed trade.
C9_Witness ==
    /\ pc = "done"
    /\ failed_days # {}
    /\ \E i \in 1..Len(ledger) : ledger[i].signal = "hold" /\ ~ ledger[i].success
    /\ \E i \in 1..Len(ledger) : ledger[i].signal # "hold" /\ ~ ledger[i].success
    /\ \E i \in 1..Len(ledger) : ledger[i].signal = "buy" /\ ledger[i].success

\* The days whose processing is over.
DaysOver == { d \in 1..NDays : d < day \/ (d = day /\ pc = "written") }

\* One row per processed day, in ascending date order.
LedgerShape ==
    /\ \A i \in 1..(Len(ledger) - 1) : ledger[i].date < ledger[i + 1].date
    /\ \A d \in DaysOver :
           (d \in failed_days) # (\E i \in 1..Len(ledger) : ledger[i].date = d)
    /\ \A i \in 1..Len(ledger) : ledger[i].date \in DaysOver
    /\ (pc = "written" /\ out.signal = "hold")
       => ( /\ ledger[Len(ledger)].date = day
            /\ ledger[Len(ledger)].signal = "hold" )

\* A step adds at most one row, at the end, and leaves the others alone.
LedgerAppendOnly ==
    \/ ledger' = ledger
    \/ /\ Len(ledger') = Len(ledger) + 1
       /\ SubSeq(ledger', 1, Len(ledger)) = ledger

\* C10: the ledger is append-only and holds exactly one row per processed
\* trading day, hold days included, in strictly ascending date order; a row
\* once written is never changed or removed.
C10_LedgerAppendOnly == [] LedgerShape /\ [][LedgerAppendOnly]_vars

\* A finished run whose ledger holds a hold row between two trades and has a
\* gap for a skipped day.
C10_Witness ==
    /\ pc = "done"
    /\ Cardinality(failed_days) = 1
    /\ Len(ledger) = NDays - 1
    /\ \E i, j, k \in 1..Len(ledger) :
           /\ i < j
           /\ j < k
           /\ ledger[i].signal = "buy" /\ ledger[i].success
           /\ ledger[j].signal = "hold" /\ ledger[j].quantity = 0
           /\ ledger[k].signal \in SellOrClose /\ ledger[k].success

\* The rows run r has written for the first n days.
RowsUpTo(r, n) == SelectSeq(runs[r].ledger, LAMBDA row : row.date <= n)

EngineTrade ==
    /\ pc = "written"
    /\ prop.signal \in Signals
    /\ out.signal \in {"buy", "sell", "close"}

\* The order fits the portfolio the day began with.
Feasible ==
    /\ out.signal = "buy" => BuyCost(out.quantity, md.price) <= day_start.cash
    /\ out.signal \in SellOrClose => out.quantity <= day_start.position

BuyInLots ==
    (pc = "written" /\ out.signal = "buy") => out.quantity % LOT_SIZE = 0

\* C13: a buy leaves the hard rules rounded to whole lots, every executed buy
\* has a quantity that is a positive multiple of the lot size, and the
\* position after it is a multiple of the lot size unless the position before
\* it was not.
C13_LotAligned ==
    /\ [] BuyInLots
    /\ [][ ( /\ pc = "decide"
             /\ pc' = "written"
             /\ out'.signal = "buy"
             /\ out'.success )
           => ( /\ out'.quantity > 0
                /\ out'.quantity % LOT_SIZE = 0
                /\ position' = position + out'.quantity
                /\ position % LOT_SIZE = 0 => position' % LOT_SIZE = 0 ) ]_vars

\* A buy asked for more than the cash pays was executed on top of shares
\* already held.
C13_Witness ==
    /\ pc = "written"
    /\ out.signal = "buy"
    /\ out.success
    /\ out.quantity < prop.qty_lots * LOT_SIZE
    /\ day_start.position > 0
    /\ position = day_start.position + out.quantity

\* The day began locked.
LockedAtDayStart == InLockout(day_start.buy_cooldown_until, day)

\* On a day that began locked with the release flag set, the symbol is
\* unlocked once the snapshot is in.
ReleasedWhenMet ==
    ( /\ pc \in {"decide", "tracked"}
      /\ LockedAtDayStart
      /\ flags.is_cooldown_release_met )
    => ( /\ buy_cooldown_until = 0
         /\ ~ md.buy_cooldown )

\* C14: early release is a state transition.  If is_cooldown_release_met is
\* true on a locked day, the symbol is unlocked on that day, and an unlocked
\* symbol stays unlocked, whatever the release condition is on the following
\* days, until a sell or close is executed.
C14_EarlyRelease ==
    /\ [] ReleasedWhenMet
    /\ [][ (buy_cooldown_until = 0 /\ buy_cooldown_until' # 0)
           => ( /\ pc' \in {"track", "written"}
                /\ buy_cooldown_until' = day + LockoutDays ) ]_vars

\* The step executes a sell or close of the day.
SellExecuted ==
    /\ pc = "decide"
    /\ pc' = "written"
    /\ out'.signal \in SellOrClose
    /\ out'.success
    /\ out'.quantity > 0

\* C15: the lockout date is set only by a successfully executed sell or
\* close, to the trade date plus the lockout period; a sell or close that was
\* vetoed to hold or refused by the ledger, a buy and a hold leave the
\* cooldown as it is.  The only other change is the early reset, which
\* clears it.
C15_CooldownEntry ==
    [][ /\ SellExecuted => buy_cooldown_until' = day + LockoutDays
        /\ (buy_cooldown_until' # buy_cooldown_until /\ ~ SellExecuted)
           => (pc = "fetch" /\ buy_cooldown_until' = 0) ]_vars

\* A sale executed on an unlocked day has started the lockout.
C15_Witness ==
    /\ pc = "written"
    /\ out.signal = "sell"
    /\ out.success
    /\ day_start.buy_cooldown_until = 0
    /\ buy_cooldown_until = day + LockoutDays
    /\ InLockout(buy_cooldown_until, day + 1)

\* C16: a day whose final order is hold changes neither cash, position,
\* avg_entry_price nor last_buy_date, and its row is a hold row with
\* success = true and quantity 0.
C16_HoldFrame ==
    ( /\ pc = "written"
      /\ prop.signal \in Signals
      /\ out.signal = "hold" )
    => ( /\ PortfolioAsAtDayStart
         /\ ledger[Len(ledger)] = Row(day, "hold", 0, TRUE, day_start.cash) )

\* What a symbol owns: position, average cost, settlement anchor, cooldown.
OwnState(st) ==
    <<st.position, st.avg_entry_price, st.last_buy_date, st.buy_cooldown_until>>

\* C17: a day step of one symbol changes neither the state nor the cash of
\* another symbol, and the ledger of every symbol is the ledger it has when
\* the other symbols do not trade.
C17_SymbolsIsolated ==
    /\ [] ( \A y \in Symbols : books[y].ledger = alone[y].ledger )
    /\ [][ \A y, z \in Symbols :
             (y # z /\ books'[y] # books[y])
             => ( /\ OwnState(books'[z]) = OwnState(books[z])
                  /\ books'[z].ledger = books[z].ledger
                  /\ Budget(account') = Budget(account) ) ]_vars

\* RSI(6) is a number below the oversold threshold.
Oversold(m) == IsNum(m.rsi6) /\ m.rsi6 < OVERSOLD_RSI

\* The price is a number in the band ema20 <= price <= 1.015 * ema20.
InBand(m) ==
    /\ IsNum(m.price)
    /\ IsNum(m.ema20)
    /\ m.price >= m.ema20
    /\ m.price * BAND_DEN <= m.ema20 * BAND_NUM

\* C18: is_cooldown_release_met is true exactly when RSI(6) is below 40 or
\* the price lies in the band, false when the fields it needs are missing,
\* and the early-reset test of the day loop gives the same answer on every
\* snapshot.
C18_ReleaseTest ==
    pc = "tracked"
    => ( /\ flags.is_cooldown_release_met = (Oversold(md) \/ InBand(md))
         /\ (md.rsi6 = NoneVal /\ (md.price = NoneVal \/ md.ema20 = NoneVal))
            => ~ flags.is_cooldown_release_met
         /\ reset_cooldown(md) = flags.is_cooldown_release_met )

\* Request r was refused for want of a user or of credits.
Refused(q) == q.status \in {STATUS_UNAUTHORIZED, STATUS_PAYMENT_REQUIRED}

\* The generator processes spawned so far.
RECURSIVE SpawnedUpTo(_, _)
SpawnedUpTo(reqs, n) ==
    IF n = 0 THEN 0 ELSE reqs[n].spawned + SpawnedUpTo(reqs, n - 1)

\* Who has no user gets 401, who has no credit gets 402, and neither has
\* deducted or spawned anything.
RefusedCleanly ==
    \A r \in Requests :
        LET q == api.reqs[r] IN
        /\ (q.pc = "done" /\ ~ q.user /\ q.status # STATUS_ERROR)
           => q.status = STATUS_UNAUTHORIZED
        /\ (q.user /\ q.seen # NoneVal /\ q.seen < 1)
           => q.status = STATUS_PAYMENT_REQUIRED
        /\ Refused(q) => (q.deducted = 0 /\ q.spawned = 0)

\* C19: a request without an authenticated user is answered 401 and one of a
\* user whose left_credits is below 1 is answered 402; a request answered 401
\* or 402 has deducted no credit and spawned no process, and the step that
\* answers it leaves the balance and the processes as they are.
C19_RefusedRequests ==
    /\ [] RefusedCleanly
    /\ [][ \A r \in Requests :
             (Refused(api'.reqs[r]) /\ ~ Refused(api.reqs[r]))
             => ( /\ api'.left_credits = api.left_credits
                  /\ SpawnedUpTo(api'.reqs, MaxRequests)
                     = SpawnedUpTo(api.reqs, MaxRequests) ) ]_vars

\* One request took the last credit and spawned the generator; the next one
\* of the same user was answered 402.
C19_Witness ==
    /\ api.left_credits = 0
    /\ \E r \in Requests :
           api.reqs[r].status = STATUS_OK /\ api.reqs[r].deducted = 1
    /\ \E r \in Requests :
           api.reqs[r].status = STATUS_PAYMENT_REQUIRED /\ api.reqs[r].seen = 0

\* C20: once a session has begun, every message of the history the page hands
\* to the wizard was written in that session and holds text of that session
\* only: no message of an earlier creation, edit or diagnosis session is in
\* it, whatever response is still being read and whatever onHistoryChange is
\* still deferred.
C20_SessionsIsolated ==
    \A i \in 1..Len(chat.chatHistory) :
        chat.chatHistory[i].from \subseteq {chat.session}

\* The answered entries, read as rows (date and values), are one per calendar
\* day of the rows received, in strictly ascending order, and each is the last
\* row received for its day.
OnePerDateLastKept(rows, series) ==
    /\ \A i \in 1..Len(series) - 1 :
           DateKey(series[i].date) < DateKey(series[i + 1].date)
    /\ \A j \in 1..Len(rows) :
           \E i \in 1..Len(series) : DateKey(series[i].date) = DateKey(rows[j].date)
    /\ \A i \in 1..Len(series) :
           \E j \in 1..Len(rows) :
               /\ series[i] = rows[j]
               /\ \A k \in j + 1..Len(rows) :
                      DateKey(rows[k].date) # DateKey(rows[j].date)

\* The entries of an answered series as rows: timestamp is the row's date.
SeriesAsRows(series) ==
    [i \in 1..Len(series) |->
        [date |-> series[i].timestamp, equity |-> series[i].equity]]

\* C21: the series answered by /api/performance-summary and /api/kline-data, and
\* the trade rows the signals of /api/kline-data are built from, hold at most
\* one entry per calendar date, in strictly ascending date order, and the entry
\* of a date is the last row received for that date.
C21_OnePerDate ==
    feed.resp.status = STATUS_OK =>
        /\ OnePerDateLastKept(feed.rows, SeriesAsRows(feed.resp.series))
        /\ feed.route = "kline-data" =>
               OnePerDateLastKept(feed.trades, feed.resp.trades)

\* C21 happens: three rows received with the later day first and a day twice
\* with different values, answered as two entries; and a kline answer with a
\* trade date received twice.
C21_Witness ==
    /\ feed.resp.status = STATUS_OK
    /\ feed.route = "kline-data"
    /\ Len(feed.rows) = 3 /\ Len(feed.resp.series) = 2
    /\ DateKey(feed.rows[1].date) > DateKey(feed.rows[2].date)
    /\ DateKey(feed.rows[2].date) = DateKey(feed.rows[3].date)
    /\ feed.rows[2].equity # feed.rows[3].equity
    /\ Len(feed.trades) = 2 /\ Len(feed.resp.trades) = 1
    /\ feed.trades[1].side # feed.trades[2].side

\* C22: however the charging requests of one user interleave, no more of them
\* are charged than the user had credits: the balance is never negative.
C22_NeverOvercharged ==
    api.left_credits >= 0

\* C23: a request answered 400 for a missing messages array, and a session
\* creation whose body cannot be parsed or whose insert fails, have deducted
\* no credit.
C23_ChargedOnlyForWork ==
    \A r \in Requests :
        (api.reqs[r].status = STATUS_BAD_REQUEST
            \/ api.reqs[r].failed \in {"body", "insert"})
        => api.reqs[r].deducted = 0

\* C24: in whatever order the child's data, close and error events arrive,
\* controller.close() is called exactly once from the first close or error
\* event on (and not before), and controller.enqueue() is never called after
\* it.
C24_ClosedOnce ==
    /\ ctrl.close_calls = (IF ctrl.closed_event \/ ctrl.error_event THEN 1 ELSE 0)
    /\ ctrl.late_enqueues = 0
    /\ ctrl.stream = "closed" => ctrl.isClosed

\* C24 happens: the error event and the close event have both arrived, and
\* data after them was dropped.
C24_Witness ==
    /\ ctrl.closed_event
    /\ ctrl.error_event
    /\ ctrl.stream = "closed"
    /\ ctrl.data > ctrl.enqueued
    /\ ctrl.enqueued > 1

\* C25: once the child of an accepted run has ended, by a close event or by an
\* error event, the strategy file is deleted and the stream was closed by
\* exactly one call; and at no time is a call made on a controller that is
\* already closed.
C25_CleanTermination ==
    /\ (job.closed_event \/ job.error_event) =>
           /\ ~job.file
           /\ job.stream = "closed"
           /\ job.close_calls = 1
    /\ job.rejected = 0

\* The events of the newline-terminated lines of the whole body.
WholeBodyEvents ==
    LET lines == SplitLines(Decode(FALSE, ndjson.bytes).text)
    IN  EventsOf(SubSeq(lines, 1, Len(lines) - 1))

====
